---- MODULE Spec2Model ----
(***************************************************************************)
(* Scoring state machine of the Scoreboard component                       *)
(* (src/src/components/StatsViewer.tsx, the Scoreboard function) together  *)
(* with the team state owned by App (src/src/App.tsx) and the reset of the *)
(* Settings screen (src/src/components/Settings.tsx).                      *)
(*                                                                         *)
(* team1, team2  the two Team records held by App's useState               *)
(* settings      the fields of GameSettings the scoring code can read      *)
(* seen          the team1/team2/settings.sets captured by the closures of *)
(*               the Scoreboard's first render; handleGesture is memoised  *)
(*               with an empty dependency list, so the addPoint it calls   *)
(*               keeps reading these values until the component remounts   *)
(* lastOp        the last UI event handled                                 *)
(*                                                                         *)
(* React applies the queued functional updaters (setTeam(t => ...)) in     *)
(* order to the latest state, whereas the plain values an event handler    *)
(* reads (team1, team2) are those of the render that created the handler.  *)
(* The operator addPoint keeps the two apart: c, o are the values the      *)
(* closure reads, C, O the states the updaters are applied to.             *)
(*                                                                         *)
(* The Settings screen replaces the Scoreboard (App view 'play'), so every *)
(* operation of that screen is followed by a new mount of the Scoreboard   *)
(* before the next scoring event; the actions of the Settings screen       *)
(* include that mount.  The match format is chosen before play starts.     *)
(***************************************************************************)
EXTENDS Integers, Sequences, FiniteSets, TLC

VARIABLES team1, team2, settings, seen, lastOp

(***************************************************************************)
(* State of the write-through to the scoreboards table (updateScoreboard   *)
(* and the debounce effect of the Scoreboard).                             *)
(*                                                                         *)
(* updating, error, retryCount, scoreboardId  the useState values          *)
(* timer     the debounce timeout of the effect is pending.  The effect    *)
(*           depends on updateScoreboard, which is rebuilt whenever        *)
(*           settings, team1, team2, scoreboardId or updating change, so a *)
(*           pending timeout always holds the updateScoreboard of the      *)
(*           current render                                                *)
(* calls     the invocations of updateScoreboard that have not returned,   *)
(*           each with the team1/team2/scoreboardId of its closure, its    *)
(*           retries and delay arguments and its position (awaiting the    *)
(*           response, or awaiting the back-off timeout)                   *)
(* rows      the scoreboards table: row i holds <<team1, team2>>           *)
(* failures  number of requests the store has refused                      *)
(* attempts  requests issued since the last trigger (score change, Retry   *)
(*           button) or the last accepted request, counted up to           *)
(*           MaxAttempts                                                   *)
(* wrote     the debounce timeout has started a write since the last score *)
(*           change                                                        *)
(***************************************************************************)
VARIABLES updating, error, retryCount, scoreboardId, timer, calls, rows,
          failures, attempts, wrote

svars == <<team1, team2, settings, seen, lastOp>>

pvars == <<updating, error, retryCount, scoreboardId, timer, calls, rows,
           failures, attempts, wrote>>

vars == <<team1, team2, settings, seen, lastOp,
          updating, error, retryCount, scoreboardId, timer, calls, rows,
          failures, attempts, wrote>>

\* Bound on the games counter of one team (the code has none).
MaxGames == 8

Teams == {"team1", "team2"}

SetsOptions == {3, 5}

OtherName(t) == IF t = "team1" THEN "team2" ELSE "team1"

\* Math.ceil(n / 2) for a non-negative integer n
Ceil2(n) == (n + 1) \div 2

\* mutant: the guard written with > in place of >=
MatchOver_Strict(c, n) == c.sets > Ceil2(n)

\* `currentTeam.sets >= Math.ceil(settings.sets / 2)`
MatchOver(c, n) == c.sets >= Ceil2(n)

\* the two branches of addPoint commented "Win game" / "Win game from advantage"
WinsGame(c, o) ==
  \/ c.points = "40" /\ o.points # "Ad" /\ o.points # "40"
  \/ c.points = "Ad"

\* the branch commented "Other team has advantage, remove it"
CancelsAdvantage(c, o) == c.points = "40" /\ o.points = "Ad"

\* mutant: a mistyped literal in the ladder
NewPoints_Typo(c, o) ==
  IF c.points = "0" THEN "15"
  ELSE IF c.points = "15" THEN "30"
  ELSE IF c.points = "30" THEN "45"
  ELSE IF c.points = "40"
       THEN IF o.points = "Ad" THEN "40"
            ELSE IF o.points = "40" THEN "Ad"
            ELSE "0"
  ELSE IF c.points = "Ad" THEN "0"
  ELSE c.points

\* newPoints after the "Regular point scoring" chain
NewPoints(c, o) ==
  IF c.points = "0" THEN "15"
  ELSE IF c.points = "15" THEN "30"
  ELSE IF c.points = "30" THEN "40"
  ELSE IF c.points = "40"
       THEN IF o.points = "Ad" THEN "40"
            ELSE IF o.points = "40" THEN "Ad"
            ELSE "0"
  ELSE IF c.points = "Ad" THEN "0"
  ELSE c.points

\* newGames after the "Regular point scoring" chain
NewGames(c, o) == IF WinsGame(c, o) THEN c.games + 1 ELSE c.games

\* mutant: the second disjunct without its test of the opponent's games
SetWon_AnySeven(newGames, o) ==
  /\ newGames >= 6
  /\ \/ newGames >= o.games + 2
     \/ newGames = 7

\* the condition under "Check for set win"
SetWon(newGames, o) ==
  /\ newGames >= 6
  /\ \/ newGames >= o.games + 2
     \/ newGames = 7 /\ o.games = 5

\* the updaters addPoint queues on the other team, applied in order to O
OtherAfter(c, o, O) ==
  LET O1 == IF CancelsAdvantage(c, o) THEN [O EXCEPT !.points = "40"]
            ELSE IF WinsGame(c, o)
                 THEN [O EXCEPT !.points = "0", !.isServing = ~ @]
                 ELSE O
  IN  IF SetWon(NewGames(c, o), o)
      THEN [O1 EXCEPT !.games = 0, !.points = "0"]
      ELSE O1

\* mutant: the game win does not flip the scoring team's isServing
CurrentAfter_KeepsServe(c, o, C) ==
  LET won == SetWon(NewGames(c, o), o)
  IN  [C EXCEPT !.points = IF won THEN "0" ELSE NewPoints(c, o),
                !.games  = IF won THEN 0 ELSE NewGames(c, o),
                !.sets   = IF won THEN c.sets + 1 ELSE c.sets]

\* the updaters addPoint queues on the scoring team, applied in order to C
CurrentAfter(c, o, C) ==
  LET C1 == IF WinsGame(c, o) THEN [C EXCEPT !.isServing = ~ @] ELSE C
      won == SetWon(NewGames(c, o), o)
  IN  [C1 EXCEPT !.points = IF won THEN "0" ELSE NewPoints(c, o),
                 !.games  = IF won THEN 0 ELSE NewGames(c, o),
                 !.sets   = IF won THEN c.sets + 1 ELSE c.sets]

\* addPoint: c, o are currentTeam and otherTeam as the closure reads them,
\* C, O the states the updaters act on, n is settings.sets of the closure.
\* The result is <<scoring team, other team>>.
addPoint(c, o, C, O, n) ==
  IF MatchOver(c, n) THEN <<C, O>>
  ELSE <<CurrentAfter(c, o, C), OtherAfter(c, o, O)>>

\* the branch of addPoint an event takes, as the closure decides it
Branch(c, o, n) ==
  IF MatchOver(c, n) THEN "over"
  ELSE IF SetWon(NewGames(c, o), o) THEN "set"
  ELSE IF WinsGame(c, o) THEN "game"
  ELSE IF CancelsAdvantage(c, o) THEN "cancel"
  ELSE IF c.points = "40" /\ o.points = "40" THEN "advantage"
  ELSE "ladder"

\* mutant: the updater builds the record without the team's isServing
removePoint_DropsServe(t) ==
  [t EXCEPT !.points = IF t.points = "15" THEN "0"
                       ELSE IF t.points = "30" THEN "15"
                       ELSE IF t.points = "40" THEN "30"
                       ELSE IF t.points = "Ad" THEN "40"
                       ELSE t.points,
            !.isServing = FALSE]

\* mutant: the step from 40 goes back two rungs
removePoint_TwoRungs(t) ==
  [t EXCEPT !.points = IF t.points = "15" THEN "0"
                       ELSE IF t.points = "30" THEN "15"
                       ELSE IF t.points = "40" THEN "15"
                       ELSE IF t.points = "Ad" THEN "40"
                       ELSE t.points]

\* mutant: at 0 the updater takes back the last game
removePoint_UndoGame(t) ==
  IF t.points = "0" /\ t.games > 0
  THEN [t EXCEPT !.points = "40", !.games = @ - 1]
  ELSE [t EXCEPT !.points = IF t.points = "15" THEN "0"
                            ELSE IF t.points = "30" THEN "15"
                            ELSE IF t.points = "40" THEN "30"
                            ELSE IF t.points = "Ad" THEN "40"
                            ELSE t.points]

\* the updater of removePoint
removePoint(t) ==
  [t EXCEPT !.points = IF t.points = "15" THEN "0"
                       ELSE IF t.points = "30" THEN "15"
                       ELSE IF t.points = "40" THEN "30"
                       ELSE IF t.points = "Ad" THEN "40"
                       ELSE t.points]

\* addPoint(team) for both teams as a pair <<team1, team2>>, the closure
\* reading s1, s2 and n while the state is T1, T2
addPointPair(t, s1, s2, T1, T2, n) ==
  IF t = "team1"
  THEN addPoint(s1, s2, T1, T2, n)
  ELSE LET r == addPoint(s2, s1, T2, T1, n) IN <<r[2], r[1]>>

\* the result of applying addPoint(team) to the state T1, T2 itself
Sequential(t, T1, T2, n) == addPointPair(t, T1, T2, T1, T2, n)

InBounds(pair) == pair[1].games <= MaxGames /\ pair[2].games <= MaxGames

\* what the closures of a first render capture
Captured(T1, T2, n) == [team1 |-> T1, team2 |-> T2, sets |-> n]

InitTeam1 == [points |-> "0", games |-> 0, sets |-> 0, isServing |-> TRUE]

InitTeam2 == [points |-> "0", games |-> 0, sets |-> 0, isServing |-> FALSE]

InitSettings == [sets |-> 3, goldenPoint |-> FALSE]

\* the Scoreboard as mounted: nothing written yet, the effect's first
\* timeout pending (scoreboardId = 0 stands for null)
InitWrites ==
  /\ updating = FALSE
  /\ error = FALSE
  /\ retryCount = 0
  /\ scoreboardId = 0
  /\ timer = TRUE
  /\ calls = << >>
  /\ rows = << >>
  /\ failures = 0
  /\ attempts = 0
  /\ wrote = FALSE

Init ==
  /\ team1 = InitTeam1
  /\ team2 = InitTeam2
  /\ settings = InitSettings
  /\ seen = Captured(InitTeam1, InitTeam2, InitSettings.sets)
  /\ lastOp = [op |-> "init", team |-> "none", branch |-> "none"]
  /\ InitWrites

\* no point has been played in the current match
BeforePlay ==
  /\ team1.points = "0" /\ team1.games = 0 /\ team1.sets = 0
  /\ team2.points = "0" /\ team2.games = 0 /\ team2.sets = 0

\* the render after a change of team1 or team2: updateScoreboard is rebuilt,
\* the effect clears its timeout and sets a new one
Rerender ==
  /\ timer' = TRUE
  /\ wrote' = FALSE
  /\ attempts' = 0
  /\ UNCHANGED <<updating, error, retryCount, scoreboardId, calls, rows, failures>>

\* the "Add Point" buttons: the handler of the current render
AddPoint(t) ==
  LET r == Sequential(t, team1, team2, settings.sets)
  IN  /\ InBounds(r)
      /\ team1' = r[1]
      /\ team2' = r[2]
      /\ lastOp' = [op |-> "addPoint", team |-> t,
                    branch |-> IF t = "team1"
                               THEN Branch(team1, team2, settings.sets)
                               ELSE Branch(team2, team1, settings.sets)]
      /\ IF MatchOver(IF t = "team1" THEN team1 ELSE team2, settings.sets)
         THEN UNCHANGED pvars
         ELSE Rerender
      /\ UNCHANGED <<settings, seen>>

\* handleGesture(fingers): the handler of the first render
handleGesture(fingers) ==
  /\ IF fingers \in {1, 2}
     THEN LET t == IF fingers = 1 THEN "team1" ELSE "team2"
              r == addPointPair(t, seen.team1, seen.team2, team1, team2, seen.sets)
          IN  InBounds(r) /\ team1' = r[1] /\ team2' = r[2]
     ELSE IF fingers = 3
     THEN team1' = removePoint(team1) /\ team2' = team2
     ELSE IF fingers = 4
     THEN team2' = removePoint(team2) /\ team1' = team1
     ELSE /\ team1' = [team1 EXCEPT !.isServing = ~ @]
          /\ team2' = [team2 EXCEPT !.isServing = ~ @]
  /\ lastOp' = [op |-> "gesture",
                team |-> IF fingers \in {1, 3} THEN "team1"
                         ELSE IF fingers \in {2, 4} THEN "team2" ELSE "none",
                branch |-> IF fingers = 1 THEN Branch(seen.team1, seen.team2, seen.sets)
                           ELSE IF fingers = 2 THEN Branch(seen.team2, seen.team1, seen.sets)
                           ELSE IF fingers \in {3, 4} THEN "remove" ELSE "switch"]
  /\ Rerender
  /\ UNCHANGED <<settings, seen>>

\* the "Switch Server" button
SwitchServer ==
  LET newServing == ~ team1.isServing
  IN  /\ team1' = [team1 EXCEPT !.isServing = newServing]
      /\ team2' = [team2 EXCEPT !.isServing = ~ newServing]
      /\ lastOp' = [op |-> "switchServer", team |-> "none", branch |-> "none"]
      /\ Rerender
      /\ UNCHANGED <<settings, seen>>

\* handleReset of the Settings screen, then "Start Match"
handleReset ==
  LET T1 == [team1 EXCEPT !.sets = 0, !.games = 0, !.points = "0", !.isServing = TRUE]
      T2 == [team2 EXCEPT !.sets = 0, !.games = 0, !.points = "0", !.isServing = FALSE]
  IN  /\ team1' = T1
      /\ team2' = T2
      /\ seen' = Captured(T1, T2, settings.sets)
      /\ lastOp' = [op |-> "reset", team |-> "none", branch |-> "none"]
      /\ UNCHANGED settings
      /\ UNCHANGED pvars

\* the "Number of Sets" select of the Settings screen, then "Start Match"
ChooseSets(n) ==
  /\ BeforePlay
  /\ n # settings.sets
  /\ settings' = [settings EXCEPT !.sets = n]
  /\ seen' = Captured(team1, team2, n)
  /\ lastOp' = [op |-> "settings", team |-> "none", branch |-> "none"]
  /\ UNCHANGED <<team1, team2>>
  /\ UNCHANGED pvars

\* the "Golden Point" checkbox of the Settings screen (shown for padel), then
\* "Start Match"
ToggleGoldenPoint ==
  /\ BeforePlay
  /\ settings' = [settings EXCEPT !.goldenPoint = ~ @]
  /\ seen' = Captured(team1, team2, settings.sets)
  /\ lastOp' = [op |-> "settings", team |-> "none", branch |-> "none"]
  /\ UNCHANGED <<team1, team2>>
  /\ UNCHANGED pvars

\* The scoring machine on its own: no timeout fires, so the write-through
\* stays as mounted (it never writes the team state, see C14).
Next ==
  \/ \E t \in Teams : AddPoint(t)
  \/ \E f \in 1..5 : handleGesture(f)
  \/ SwitchServer
  \/ handleReset
  \/ \E n \in SetsOptions : ChooseSets(n)
  \/ ToggleGoldenPoint

Spec == Init /\ [][Next]_vars

----------------------------------------------------------------------------
\* The server switch on a match loaded from a stored row.

PointValues == {"0", "15", "30", "40", "Ad"}

\* the teams a row of scoreboards can hold: the row is taken as it is, an
\* absent isServing reads as false
LoadedTeams == [points : PointValues, games : {0}, sets : {0}, isServing : BOOLEAN]

\* the state after initializeSupabase loads the row named by editScoreboardId
InitLoaded ==
  /\ team1 \in LoadedTeams
  /\ team2 \in LoadedTeams
  /\ settings = InitSettings
  /\ seen = Captured(team1, team2, InitSettings.sets)
  /\ lastOp = [op |-> "init", team |-> "none", branch |-> "none"]
  /\ InitWrites

NextSwitch ==
  \/ SwitchServer
  \/ \E fingers \in {5} : handleGesture(fingers)

SpecSwitch == InitLoaded /\ [][NextSwitch]_vars

----------------------------------------------------------------------------
\* addPoint and removePoint as functions of their argument.

\* the values a caller can pass for team once the types are erased: the two
\* team names and one more string
Selectors == {"team1", "team2", "team3"}

\* addPoint(sel) of the current render: `team === 'team1' ? team1 : team2`
\* and the three selections after it
CallAddPoint(sel) ==
  LET r == Sequential(sel, team1, team2, settings.sets)
  IN  /\ InBounds(r)
      /\ team1' = r[1]
      /\ team2' = r[2]
      /\ lastOp' = [op |-> "callAddPoint", team |-> sel,
                    branch |-> IF sel = "team1"
                               THEN Branch(team1, team2, settings.sets)
                               ELSE Branch(team2, team1, settings.sets)]
      /\ Rerender
      /\ UNCHANGED <<settings, seen>>

\* removePoint(sel): `team === 'team1' ? setTeam1 : setTeam2`
CallRemovePoint(sel) ==
  /\ IF sel = "team1"
     THEN team1' = removePoint(team1) /\ team2' = team2
     ELSE team2' = removePoint(team2) /\ team1' = team1
  /\ lastOp' = [op |-> "callRemovePoint", team |-> sel, branch |-> "remove"]
  /\ Rerender
  /\ UNCHANGED <<settings, seen>>

NextCalls ==
  \/ \E sel \in Selectors : CallAddPoint(sel)
  \/ \E sel \in Selectors : CallRemovePoint(sel)

SpecCalls == Init /\ [][NextCalls]_vars

----------------------------------------------------------------------------
\* The write-through: updateScoreboard, the debounce effect, the store.

\* Bound on the points played while the writes are modelled.
MaxChanges == 2

\* Bound on the invocations of updateScoreboard that have not returned.
MaxCalls == 2

\* Bound on the requests the store refuses.
MaxFailures == 4

\* Saturation value of the counter attempts.
MaxAttempts == 5

\* the default of the parameter retries
DefaultRetries == 3

\* the default of the parameter delay, in ms
DefaultDelay == 1000

\* points played so far in a first game that has not reached deuce
Rank(p) == IF p = "0" THEN 0 ELSE IF p = "15" THEN 1 ELSE IF p = "30" THEN 2 ELSE 3

PointsPlayed == Rank(team1.points) + Rank(team2.points)

\* attempts + 1, saturating
CountAttempt == IF attempts < MaxAttempts THEN attempts + 1 ELSE attempts

\* an invocation updateScoreboard() by the current render, past its guard:
\* scoreboardData and scoreboardId are those of the closure
NewCall ==
  [team1 |-> team1, team2 |-> team2, id |-> scoreboardId,
   retries |-> DefaultRetries, delay |-> DefaultDelay, pc |-> "request"]

\* the sequence q without its i-th element
RemoveAt(q, i) == SubSeq(q, 1, i - 1) \o SubSeq(q, i + 1, Len(q))

RowsAfter_InsertOnly(c) ==
  IF c.id # 0 THEN rows ELSE Append(rows, <<c.team1, c.team2>>)

\* the table after the request of call c is accepted: update ... eq('id', id),
\* or insert of a new row
RowsAfter(c) ==
  IF c.id # 0
  THEN IF c.id \in DOMAIN rows
       THEN [rows EXCEPT ![c.id] = <<c.team1, c.team2>>]
       ELSE rows
  ELSE Append(rows, <<c.team1, c.team2>>)

\* the "Add Point" buttons while the writes are modelled
ScoreChange(t) ==
  /\ PointsPlayed < MaxChanges
  /\ AddPoint(t)

\* the debounce timeout fires: updateScoreboard() of the current render
TimerFire ==
  /\ timer
  /\ IF updating
     THEN /\ timer' = FALSE
          /\ UNCHANGED <<updating, error, retryCount, scoreboardId, calls, rows,
                         failures, attempts, wrote>>
     ELSE /\ Len(calls) < MaxCalls
          /\ calls' = Append(calls, NewCall)
          /\ updating' = TRUE
          /\ error' = FALSE
          /\ timer' = TRUE
          /\ attempts' = CountAttempt
          /\ wrote' = TRUE
          /\ UNCHANGED <<retryCount, scoreboardId, rows, failures>>
  /\ UNCHANGED svars

\* the Retry button of the error banner: updateScoreboard() of the current render
RetryClick ==
  /\ error
  /\ ~ updating
  /\ Len(calls) < MaxCalls
  /\ calls' = Append(calls, NewCall)
  /\ updating' = TRUE
  /\ error' = FALSE
  /\ timer' = TRUE
  /\ attempts' = 1
  /\ UNCHANGED <<retryCount, scoreboardId, rows, failures, wrote>>
  /\ UNCHANGED svars

\* the store accepts the request of call i: the rest of the try block, then
\* finally
RespondOk(i) ==
  /\ calls[i].pc = "request"
  /\ rows' = RowsAfter(calls[i])
  /\ scoreboardId' = IF calls[i].id = 0 THEN Len(rows) + 1 ELSE scoreboardId
  /\ retryCount' = 0
  /\ updating' = FALSE
  /\ calls' = RemoveAt(calls, i)
  /\ timer' = IF updating \/ calls[i].id = 0 THEN TRUE ELSE timer
  /\ attempts' = 0
  /\ UNCHANGED <<error, failures, wrote>>
  /\ UNCHANGED svars

RespondError_Rollback(i) ==
  /\ calls[i].pc = "request"
  /\ failures < MaxFailures
  /\ failures' = failures + 1
  /\ IF calls[i].retries > 0
     THEN /\ retryCount' = retryCount + 1
          /\ calls' = [calls EXCEPT ![i].pc = "backoff"]
          /\ UNCHANGED <<updating, error, timer, team1, team2>>
     ELSE /\ error' = TRUE
          /\ updating' = FALSE
          /\ calls' = RemoveAt(calls, i)
          /\ timer' = TRUE
          /\ team1' = calls[i].team1
          /\ team2' = calls[i].team2
          /\ UNCHANGED retryCount
  /\ UNCHANGED <<scoreboardId, rows, attempts, wrote>>
  /\ UNCHANGED <<settings, seen, lastOp>>

\* the store refuses the request of call i: the catch block up to its await,
\* or its else branch and finally
RespondError(i) ==
  /\ calls[i].pc = "request"
  /\ failures < MaxFailures
  /\ failures' = failures + 1
  /\ IF calls[i].retries > 0
     THEN /\ retryCount' = retryCount + 1
          /\ calls' = [calls EXCEPT ![i].pc = "backoff"]
          /\ UNCHANGED <<updating, error, timer>>
     ELSE /\ error' = TRUE
          /\ updating' = FALSE
          /\ calls' = RemoveAt(calls, i)
          /\ timer' = IF updating THEN TRUE ELSE timer
          /\ UNCHANGED retryCount
  /\ UNCHANGED <<scoreboardId, rows, attempts, wrote>>
  /\ UNCHANGED svars

\* the back-off timeout of call i ends: `return updateScoreboard(retries - 1,
\* delay * 2)` runs the same closure up to its request (its `updating` is the
\* false it was built with), then the caller's finally sets updating false
RetryAfterDelay(i) ==
  /\ calls[i].pc = "backoff"
  /\ calls' = [calls EXCEPT ![i].pc = "request",
                            ![i].retries = @ - 1,
                            ![i].delay = @ * 2]
  /\ updating' = FALSE
  /\ error' = FALSE
  /\ timer' = IF updating THEN TRUE ELSE timer
  /\ attempts' = CountAttempt
  /\ UNCHANGED <<retryCount, scoreboardId, rows, failures, wrote>>
  /\ UNCHANGED svars

NextWrites ==
  \/ \E t \in Teams : ScoreChange(t)
  \/ TimerFire
  \/ RetryClick
  \/ \E i \in 1..MaxCalls : i <= Len(calls) /\ RespondOk(i)
  \/ \E i \in 1..MaxCalls : i <= Len(calls) /\ RespondError(i)
  \/ \E i \in 1..MaxCalls : i <= Len(calls) /\ RetryAfterDelay(i)

SpecWrites == Init /\ [][NextWrites]_vars

\* Every request is answered, every back-off timeout and every debounce
\* timeout ends.
FairWrites ==
  /\ WF_vars(TimerFire)
  /\ \A i \in 1..MaxCalls :
       /\ WF_vars(i <= Len(calls) /\ (RespondOk(i) \/ RespondError(i)))
       /\ WF_vars(i <= Len(calls) /\ RetryAfterDelay(i))

SpecWritesFair == SpecWrites /\ FairWrites

----------------------------------------------------------------------------
\* The application started from the viewer's Edit action.

\* the id handleEdit stores under editScoreboardId
EditedId == 1

\* the points of team1 in the row being edited
EditedPoints == {"0", "15"}

\* localStorage editScoreboardId after initializeSupabase has run on a stored
\* value: a stored id is read and removed (0 stands for no item)
AfterInitialize(stored) == IF stored # 0 THEN 0 ELSE stored

\* scoreboardId after the mount effect of the Scoreboard has read stored
MountedId(stored) == stored

\* the state when the Scoreboard is shown after an Edit: the row EditedId is
\* in the table, its teams have been loaded into team1 and team2
InitEdit ==
  /\ team1 \in {[InitTeam1 EXCEPT !.points = p] : p \in EditedPoints}
  /\ team2 = InitTeam2
  /\ settings = InitSettings
  /\ seen = Captured(team1, team2, InitSettings.sets)
  /\ lastOp = [op |-> "init", team |-> "none", branch |-> "none"]
  /\ updating = FALSE
  /\ error = FALSE
  /\ retryCount = 0
  /\ scoreboardId = MountedId(AfterInitialize(EditedId))
  /\ timer = TRUE
  /\ calls = << >>
  /\ rows = << <<team1, team2>> >>
  /\ failures = 0
  /\ attempts = 0
  /\ wrote = FALSE

SpecEdit == InitEdit /\ [][NextWrites]_vars

----------------------------------------------------------------------------
\* The team named t before and after a step, and its opponent.

TeamOf(t) == IF t = "team1" THEN team1 ELSE team2

TeamAfter(t) == IF t = "team1" THEN team1' ELSE team2'

\* the team a point gesture names: 1 finger team1, 2 fingers team2
FingersOf(t) == IF t = "team1" THEN 1 ELSE 2

\* Math.ceil(settings.sets / 2), written out for the two match formats
WinThreshold == IF settings.sets = 3 THEN 2 ELSE 3

\* scorer at 40 with the opponent below 40, or scorer at Ad
GameWinCase(c, o) ==
  \/ c.points = "40" /\ o.points \in {"0", "15", "30"}
  \/ c.points = "Ad"

\* C1 (as claimed): once either team's sets has reached ceil(settings.sets/2),
\* an Add Point for team1 or for team2 leaves both teams unchanged.
C1_FreezeAfterMatch ==
  [][\A t \in Teams :
       (AddPoint(t) /\ (team1.sets >= WinThreshold \/ team2.sets >= WinThreshold))
         => (team1' = team1 /\ team2' = team2)]_vars

\* C2 (as claimed): an Add Point that wins the game taking the game score to
\* 7 for the scorer against 6 awards the set: the scorer's sets goes up by 1
\* and both teams' games return to 0.
C2_SetAtSevenSix ==
  [][\A t \in Teams :
       LET c == TeamOf(t)
           o == TeamOf(OtherName(t))
       IN  (AddPoint(t) /\ c.sets < WinThreshold /\ GameWinCase(c, o)
              /\ c.games = 6 /\ o.games = 6)
             => /\ TeamAfter(t).sets = c.sets + 1
                /\ TeamAfter(t).games = 0
                /\ TeamAfter(OtherName(t)).games = 0]_vars

\* C3 (as claimed): with settings.goldenPoint enabled and both teams at 40,
\* one Add Point wins the game: games + 1 (or the set), both points back to 0
\* and the server flipped; Ad is not entered.
C3_GoldenPoint ==
  [][\A t \in Teams :
       LET c == TeamOf(t)
           o == TeamOf(OtherName(t))
       IN  (AddPoint(t) /\ settings.goldenPoint /\ c.sets < WinThreshold
              /\ c.points = "40" /\ o.points = "40")
             => /\ TeamAfter(t).points = "0"
                /\ TeamAfter(OtherName(t)).points = "0"
                /\ TeamAfter(t).isServing = ~ c.isServing
                /\ TeamAfter(OtherName(t)).isServing = ~ o.isServing]_vars

\* C4: exactly one of team1.isServing and team2.isServing is true in every
\* reachable state.
C4_ServingExclusive == team1.isServing # team2.isServing

\* C4 witness: the server has been switched by the button, and by a game win.
C4_Witness ==
  /\ lastOp.op = "switchServer"
  /\ team2.isServing /\ ~ team1.isServing
  /\ team1.games + team2.games = 1

\* C5: an Add Point that wins a game awards the set (scorer's sets + 1, both
\* teams' games and points 0) if and only if the scorer's new games count g
\* satisfies g >= 6 and (g >= opponent's games + 2, or g = 7 against 5).
C5_SetCompletion ==
  [][\A t \in Teams :
       LET c == TeamOf(t)
           o == TeamOf(OtherName(t))
           g == c.games + 1
           awarded == /\ TeamAfter(t).sets = c.sets + 1
                      /\ TeamAfter(t).games = 0
                      /\ TeamAfter(OtherName(t)).games = 0
                      /\ TeamAfter(t).points = "0"
                      /\ TeamAfter(OtherName(t)).points = "0"
       IN  (AddPoint(t) /\ c.sets < WinThreshold /\ GameWinCase(c, o))
             => (awarded <=> (g >= 6 /\ (g >= o.games + 2 \/ (g = 7 /\ o.games = 5))))]_vars

\* C5 witness: team1 has just taken the first set by winning a game.
C5_Witness ==
  /\ lastOp = [op |-> "addPoint", team |-> "team1", branch |-> "set"]
  /\ team1.sets = 1 /\ team2.sets = 0
  /\ team1.games = 0 /\ team2.games = 0

\* C6 (as claimed, the games count read before set completion): an Add Point
\* that wins a game gives the scorer games + 1 (or completes the set), resets
\* both points and flips both isServing; an Add Point that does not win a
\* game leaves games, sets and isServing of both teams unchanged.
C6_GameWinEffect ==
  [][\A t \in Teams :
       LET c == TeamOf(t)
           o == TeamOf(OtherName(t))
           c2 == TeamAfter(t)
           o2 == TeamAfter(OtherName(t))
       IN  AddPoint(t) =>
             IF c.sets < WinThreshold /\ GameWinCase(c, o)
             THEN /\ \/ c2.games = c.games + 1 /\ c2.sets = c.sets /\ o2.games = o.games
                     \/ c2.games = 0 /\ c2.sets = c.sets + 1 /\ o2.games = 0
                  /\ c2.points = "0" /\ o2.points = "0"
                  /\ c2.isServing = ~ c.isServing
                  /\ o2.isServing = ~ o.isServing
                  /\ o2.sets = o.sets
             ELSE /\ c2.games = c.games /\ o2.games = o.games
                  /\ c2.sets = c.sets /\ o2.sets = o.sets
                  /\ c2.isServing = c.isServing
                  /\ o2.isServing = o.isServing]_vars

\* C7: from 40-40 an Add Point for a team gives it Ad and leaves the other at
\* 40; an Add Point for the team facing Ad returns both to 40 and changes
\* neither games nor isServing.
C7_DeuceAdvantage ==
  [][\A t \in Teams :
       LET c == TeamOf(t)
           o == TeamOf(OtherName(t))
           c2 == TeamAfter(t)
           o2 == TeamAfter(OtherName(t))
       IN  (AddPoint(t) /\ c.sets < WinThreshold /\ c.points = "40")
             => /\ o.points = "40" => (c2.points = "Ad" /\ o2.points = "40")
                /\ o.points = "Ad"
                     => /\ c2.points = "40" /\ o2.points = "40"
                        /\ c2.games = c.games /\ o2.games = o.games
                        /\ c2.isServing = c.isServing
                        /\ o2.isServing = o.isServing]_vars

C9_PointDomain ==
  /\ team1.points \in {"0", "15", "30", "40", "Ad"}
  /\ team2.points \in {"0", "15", "30", "40", "Ad"}

\* C9 witness: a point has been removed from an advantage.
C9_Witness ==
  /\ lastOp = [op |-> "gesture", team |-> "team1", branch |-> "remove"]
  /\ team1.points = "40" /\ team2.points = "40"
  /\ team1.games = 1

\* C10 (as claimed): every scoring event, from a button or from a gesture,
\* yields the state that addPoint gives when applied to the state the event
\* finds; none is computed from an older state.
C10_EventOrder ==
  [][\A t \in Teams :
       (AddPoint(t) \/ handleGesture(FingersOf(t)))
         => <<team1', team2'>> = Sequential(t, team1, team2, settings.sets)]_vars

\* the team a remove gesture names: 3 fingers team1, 4 fingers team2
RemoveFingersOf(t) == IF t = "team1" THEN 3 ELSE 4

\* C11 (as claimed): in every reachable state a point gesture for a team
\* yields the same team state as the Add Point button for that team.
C11_GestureEqualsButton ==
  \A t \in Teams :
    addPointPair(t, seen.team1, seen.team2, team1, team2, seen.sets)
      = Sequential(t, team1, team2, settings.sets)

\* C17: removePoint(team) leaves games, sets and isServing of both teams and
\* the points of the other team unchanged.
C17_RemovePointFrame ==
  [][\A t \in Teams :
       handleGesture(RemoveFingersOf(t))
         => /\ TeamAfter(t).games = TeamOf(t).games
            /\ TeamAfter(t).sets = TeamOf(t).sets
            /\ TeamAfter(t).isServing = TeamOf(t).isServing
            /\ TeamAfter(OtherName(t)) = TeamOf(OtherName(t))]_vars

\* C17 witness: a point was removed from the serving team, which has won games.
C17_Witness ==
  /\ lastOp = [op |-> "gesture", team |-> "team1", branch |-> "remove"]
  /\ team1.isServing
  /\ team1.games = 2 /\ team2.games = 0
  /\ team1.points = "15" /\ team2.points = "30"

\* C18: removePoint(team) maps the team's points 15 to 0, 30 to 15, 40 to 30
\* and Ad to 40, and leaves 0 at 0.
C18_RemovePointLadder ==
  [][\A t \in Teams :
       handleGesture(RemoveFingersOf(t))
         => LET p == TeamOf(t).points
                q == TeamAfter(t).points
            IN  /\ p = "15" => q = "0"
                /\ p = "30" => q = "15"
                /\ p = "40" => q = "30"
                /\ p = "Ad" => q = "40"
                /\ p = "0"  => q = "0"]_vars

\* C18 witness: team2 has stepped back from 40 to 30 against 0.
C18_Witness ==
  /\ lastOp = [op |-> "gesture", team |-> "team2", branch |-> "remove"]
  /\ team2.points = "30" /\ team1.points = "0"
  /\ team1.games = 0 /\ team2.games = 0

\* C19: right after an Add Point that won a game, removePoint for the same
\* team changes nothing: games and sets stay at their values after the win.
C19_UndoAsymmetry ==
  (lastOp.op = "addPoint" /\ lastOp.branch \in {"game", "set"})
    => removePoint(TeamOf(lastOp.team)) = TeamOf(lastOp.team)

\* C19 witness: team1 has just won a game that did not end the set.
C19_Witness ==
  /\ lastOp = [op |-> "addPoint", team |-> "team1", branch |-> "game"]
  /\ team1.games = 3 /\ team1.points = "0"

----------------------------------------------------------------------------
\* Claims about the write-through.

\* the requests in flight
InFlight == {i \in DOMAIN calls : calls[i].pc = "request"}

\* C12: at any time at most one insert/update request of updateScoreboard is
\* in flight, also while a failed write is retried and while the debounce
\* timer or the Retry button fires.
C12_SingleInFlight == Cardinality(InFlight) <= 1

\* the row of this session holds the team state in memory
Persisted ==
  /\ scoreboardId \in DOMAIN rows
  /\ rows[scoreboardId] = <<team1, team2>>

\* C13: once the team state changes no more and the store accepts writes, the
\* persisted row eventually holds team1 and team2 of the in-memory state, and
\* keeps them.
C13_WriteThrough == <>[]Persisted

C13_Witness ==
  /\ Persisted
  /\ PointsPlayed > 0
  /\ failures > 0

\* a step of updateScoreboard
WriteStep == calls' # calls

\* C14: no step of an updateScoreboard call, failed, retried or abandoned,
\* changes points, games, sets or isServing of a team; it changes only
\* updating, error, retryCount and scoreboardId.
C14_FailureIsolation == [][WriteStep => UNCHANGED svars]_vars

C14_Witness ==
  /\ error
  /\ failures > DefaultRetries
  /\ PointsPlayed > 0

\* C15: a write triggered once whose attempts all fail is attempted 3 times in
\* total, and no further attempt is made until a score change or the Retry
\* button.
C15_ThreeAttempts == attempts <= 3

\* a write started by the debounce timeout
TimerWrite == timer /\ ~ updating /\ calls' = Append(calls, NewCall)

\* C16: the score changes of a burst start exactly one write: after the write
\* the debounce timer started for a change, the timer starts no other write
\* until the next change.
C16_OneWritePerBurst == [][TimerWrite => ~ wrote]_vars

----------------------------------------------------------------------------
\* Claims about the server switch.

\* a step of the Switch Server button or of the 5-finger gesture
SwitchStep == lastOp'.op = "switchServer" \/ lastOp'.branch = "switch"

\* C20: after the switch-server operation, by the button or by the 5-finger
\* gesture, exactly one team has isServing true, whatever the two isServing
\* values were before.
C20_SwitchPostcondition ==
  [][SwitchStep => (team1'.isServing # team2'.isServing)]_vars

----------------------------------------------------------------------------
\* Claims about the reset, the settings and the selectors.

\* C21 (as claimed): the reset sets points, games and sets of both teams to 0
\* and leaves each team's isServing as it was before the reset.
C21_ResetKeepsServe ==
  [][lastOp'.op = "reset"
       => /\ team1'.points = "0" /\ team1'.games = 0 /\ team1'.sets = 0
          /\ team2'.points = "0" /\ team2'.games = 0 /\ team2'.sets = 0
          /\ team1'.isServing = team1.isServing
          /\ team2'.isServing = team2.isServing]_vars

\* the GameSettings an addPoint closure holds: the match format of the state
\* with the two tie-break flags set to tb and ctb
SettingsWith(tb, ctb) ==
  [sets |-> settings.sets, goldenPoint |-> settings.goldenPoint,
   tiebreak |-> tb, championshipTiebreak |-> ctb]

\* mutant: with settings.tiebreak set, a point at 6-6 is counted in
\* tiebreakPoints and not on the ladder
addPointWith_Tiebreak(s, t, T1, T2) ==
  IF s.tiebreak /\ T1.games = 6 /\ T2.games = 6
  THEN <<T1, T2>>
  ELSE Sequential(t, T1, T2, s.sets)

\* addPoint(team) of a render whose settings are s and whose teams are T1, T2:
\* of s the function reads settings.sets only
addPointWith(s, t, T1, T2) == Sequential(t, T1, T2, s.sets)

C23_InvalidSelector ==
  [][(lastOp'.op \in {"callAddPoint", "callRemovePoint"} /\ lastOp'.team \notin Teams)
       => (team1' = team1 /\ team2' = team2)]_vars

----------------------------------------------------------------------------
\* Claims about the reachable scores.

\* C24 (as claimed): if one team's points is Ad, the other team's points is 40.
C24_AdvantageConsistency ==
  /\ team1.points = "Ad" => team2.points = "40"
  /\ team2.points = "Ad" => team1.points = "40"

\* C25 (as claimed): at most one team has sets >= ceil(settings.sets / 2).
C25_UniqueWinner ==
  ~ (MatchOver(team1, settings.sets) /\ MatchOver(team2, settings.sets))

----------------------------------------------------------------------------
\* Claims about what the writes carry.

\* C26 (as claimed): once a write has stored the current team state, the
\* debounce timer starts no further write while that state does not change.
C26_WriteQuiescence == [][Persisted => ~ TimerWrite]_vars

\* call i sends a request in this step: a new invocation, or a retry
Issues(i) ==
  /\ i \in DOMAIN calls'
  /\ calls'[i].pc = "request"
  /\ \/ i = Len(calls) + 1
     \/ Len(calls') = Len(calls) /\ calls[i].pc = "backoff"

\* C27 (as claimed): every request, a retry included, carries the team state
\* current when it is sent, and a write that completes never replaces the
\* persisted current state by an earlier one.
C27_NoStaleOverwrite ==
  [][/\ \A i \in 1..(Len(calls) + 1) :
          Issues(i) => (calls'[i].team1 = team1 /\ calls'[i].team2 = team2)
     /\ (Persisted /\ rows' # rows) => Persisted']_vars

\* the requests in flight that are inserts
InsertsInFlight == {i \in InFlight : calls[i].id = 0}

\* C28 (as claimed): at most one insert is issued in a session, and after an
\* insert has succeeded every write is an update of that row.
C28_SingleRow ==
  /\ Len(rows) + Cardinality(InsertsInFlight) <= 1
  /\ Len(rows) = 1 => scoreboardId = 1

\* C29 (as claimed): started with an editScoreboardId in localStorage, the
\* Scoreboard writes to the row with that id: every request names it and no
\* row is inserted.
C29_EditContinuity ==
  /\ \A i \in DOMAIN calls : calls[i].id = EditedId
  /\ Len(rows) = 1

----------------------------------------------------------------------------
\* Claims about the set check.

\* C30 (as claimed): an Add Point that does not win a game for the scorer
\* (a step on the ladder, to Ad, or cancelling an advantage) changes neither
\* the scorer's sets nor its games, whatever its games count.
C30_SetOnlyOnGameWin ==
  [][\A t \in Teams :
       (AddPoint(t) /\ ~ WinsGame(TeamOf(t), TeamOf(OtherName(t))))
         => /\ TeamAfter(t).sets = TeamOf(t).sets
            /\ TeamAfter(t).games = TeamOf(t).games]_vars

============================================================================
